---- MODULE Spec2Model ----
(***************************************************************************)
(* Model of parsl/monitoring/db_manager.py: the DatabaseManager ingestion  *)
(* pipeline.  Three threads share two pending queues:                      *)
(*   - two forwarders (_migrate_logs_to_internal, tags 'priority' and      *)
(*     'resource') move items from the ingress queues to the pending       *)
(*     queues; the priority forwarder calls close() on 'STOP';             *)
(*   - the coordinator (the while loop of start()) collects a batch from   *)
(*     each pending queue (_get_messages_in_batch), classifies it and      *)
(*     issues the _insert/_update calls.                                   *)
(* Every step that reads or writes shared state (a qsize(), an is_set(),   *)
(* a get(), a put(), an attribute load or store) is one action, so that    *)
(* every interleaving of the three threads is a behaviour of the model.    *)
(* Spec is the program with well-formed messages and a database that       *)
(* accepts every call; FairSpec adds the fair scheduling of the threads;   *)
(* SpecOrRaise adds messages that lack a field, 'STOP' on the resource     *)
(* queue and calls that the database rejects.                              *)
(***************************************************************************)
EXTENDS Integers, Sequences, FiniteSets, TLC

\* ------------------------------------------------------------------ bounds
\* Number of items (workflow, task and resource messages, 'STOP' sentinels)
\* the producers put on the two ingress queues in a run.
MaxItems == 3
\* Largest value of time.time() - start a batch collection observes.
MaxElapsed == 1
\* A small batching_threshold given to the constructor (besides the default).
SmallThreshold == 1

\* --------------------------------------------------------------- constants
WORKFLOW == "workflow"
TASK == "task"
STATUS == "status"
RESOURCE == "resource"

TASK_INFO == 0
RESOURCE_INFO == 1
WORKFLOW_INFO == 2

DefaultInterval == 1
DefaultThreshold == 99999

\* Python's None.
None == "None"

\* A character of a Python string: a value that is not a mapping, so that a
\* lookup msg[column] on it raises.
Char(c) == [char |-> c]

\* The string 'STOP': a Python string is a sequence of characters, so that
\* x[-1] is defined on it and x == 'STOP' compares it with a tuple payload.
STOP == << Char("S"), Char("T"), Char("O"), Char("P") >>

\* A number that may be float('inf').
Fin(k) == [inf |-> FALSE, n |-> k]
Inf == [inf |-> TRUE, n |-> 0]

\* a >= b for an integer a and a possibly infinite b.
Geq(a, b) == (~b.inf) /\ a >= b.n

\* ---------------------------------------------------------------- messages
\* The field id is the position of the message in the enqueue order of its
\* ingress queue; it stands for the content that tells two messages apart.
WorkflowStart(i) == [id |-> i, run_id |-> "r1", python_version |-> "3.6"]
WorkflowEnd(i) == [id |-> i, run_id |-> "r1"]
TaskMsg(i, ret) == [id |-> i, run_id |-> "r1", task_id |-> "t1", task_time_returned |-> ret]
ResourceMsg(i) == [id |-> i, run_id |-> "r1", task_id |-> "t1"]

\* What a producer may put on the priority queue as the i-th message: x of
\* the item (x, addr), a tuple (msg_type, msg).
PriorityPayloads(i) ==
    { <<WORKFLOW_INFO, WorkflowStart(i)>>,
      <<WORKFLOW_INFO, WorkflowEnd(i)>>,
      <<TASK_INFO, TaskMsg(i, None)>>,
      <<TASK_INFO, TaskMsg(i, "2024-01-01T00:00:01")>> }

ResourcePayload(i) == <<RESOURCE_INFO, ResourceMsg(i)>>

Addr == 0

\* ------------------------------------------------------------ queue.Queue
qsize(q) == Len(q)
\* Mutant: put() at the head of the queue.
PutLifo(q, x) == <<x>> \o q
Put(q, x) == Append(q, x)

\* x[-1]
Last(x) == x[Len(x)]

Take(s, k) == SubSeq(s, 1, k)
Drop(s, k) == SubSeq(s, k + 1, Len(s))
Min(a, b) == IF a <= b THEN a ELSE b
Range(s) == { s[i] : i \in DOMAIN s }

\* ------------------------------------------------------ persistence calls
\* The persistence calls, as start() makes them through _insert and _update.
InsertCall(table, msgs) == [op |-> "insert", table |-> table, messages |-> msgs]
UpdateCall(table, columns, msgs) ==
    [op |-> "update", table |-> table, columns |-> columns, messages |-> msgs]

WorkflowEndColumns == <<"run_id", "tasks_failed_count", "tasks_completed_count", "time_completed">>
WorkflowCounterColumns == <<"run_id", "tasks_failed_count", "tasks_completed_count">>
TaskUpdateColumns == <<"task_time_returned", "run_id", "task_id">>

\* The destination of a call: the operation, the table and, for an update,
\* the columns it is restricted to.
Group(call) ==
    IF call.op = "insert" THEN << "insert", call.table >>
                          ELSE << "update", call.table, call.columns >>

Groups ==
    { << "insert", WORKFLOW >>, << "insert", TASK >>, << "insert", STATUS >>,
      << "insert", RESOURCE >>,
      << "update", WORKFLOW, WorkflowEndColumns >>,
      << "update", WORKFLOW, WorkflowCounterColumns >>,
      << "update", TASK, TaskUpdateColumns >> }

Tags == {"priority", "resource"}

VARIABLES
    priority_queue,          \* ingress queue of (x, addr) items
    resource_queue,          \* ingress queue of (x, addr) items
    pending_priority_queue,  \* self.pending_priority_queue
    pending_resource_queue,  \* self.pending_resource_queue
    kill_event,              \* self._kill_event.is_set()
    batching_interval,       \* self.batching_interval
    batching_threshold,      \* self.batching_threshold
    fpc,                     \* position of each forwarder thread
    fx,                      \* the x each forwarder holds between get() and put()
    cpc,                     \* position of the coordinator (start())
    interval,                \* argument of the current _get_messages_in_batch call
    threshold,               \* argument of the current _get_messages_in_batch call
    batch,                   \* the list messages inside _get_messages_in_batch
    messages,                \* the list messages of start()
    update_messages,
    insert_messages,
    all_messages,
    cycle_calls,             \* every _insert/_update call of the current cycle
    db,                      \* per destination, the messages passed to it so far
    failure,                 \* what start() raised, if it has (else empty)
    sent,                    \* every x put on the priority queue, in order
    nresource,               \* number of resource messages put so far
    call_snapshot,           \* the pending queue when the current batch call began
    call_appended,           \* a forwarder put to that queue since the call began
    call_expired             \* the call ended on its time budget

vars == << priority_queue, resource_queue, pending_priority_queue,
           pending_resource_queue, kill_event, batching_interval,
           batching_threshold, fpc, fx, cpc, interval, threshold, batch, messages,
           update_messages, insert_messages, all_messages, cycle_calls, db,
           failure, sent, nresource, call_snapshot, call_appended, call_expired >>

queues == << priority_queue, resource_queue, pending_priority_queue, pending_resource_queue >>
config == << batching_interval, batching_threshold >>
forwarders == << fpc, fx >>
locals == << interval, threshold, batch, messages, update_messages, insert_messages, all_messages >>
calls == << cycle_calls, db, failure >>
producers == << sent, nresource >>
ghosts == << call_snapshot, call_appended, call_expired >>

\* The state when start() has created the event and started both threads
\* and is about to evaluate its loop condition for the first time.
Init ==
    /\ priority_queue = <<>>
    /\ resource_queue = <<>>
    /\ pending_priority_queue = <<>>
    /\ pending_resource_queue = <<>>
    /\ kill_event = FALSE
    /\ batching_interval \in {Fin(0), Fin(DefaultInterval)}
    /\ batching_threshold \in {Fin(SmallThreshold), Fin(DefaultThreshold)}
    /\ fpc = [t \in Tags |-> "test_kill"]
    /\ fx = [t \in Tags |-> <<>>]
    /\ cpc = "loop_kill"
    /\ interval = Fin(0)
    /\ threshold = Fin(0)
    /\ batch = <<>>
    /\ messages = <<>>
    /\ update_messages = <<>>
    /\ insert_messages = <<>>
    /\ all_messages = <<>>
    /\ cycle_calls = <<>>
    /\ db = [g \in Groups |-> <<>>]
    /\ failure = <<>>
    /\ sent = <<>>
    /\ nresource = 0
    /\ call_snapshot = <<>>
    /\ call_appended = FALSE
    /\ call_expired = FALSE

\* ---------------------------------------------------------------- producers
\* A producer puts a workflow or task message on the priority queue.
ProducePriority ==
    /\ ~kill_event
    /\ Len(sent) + nresource < MaxItems
    /\ \E x \in PriorityPayloads(Len(sent) + 1) :
          /\ priority_queue' = Put(priority_queue, <<x, Addr>>)
          /\ sent' = Append(sent, x)
    /\ UNCHANGED << resource_queue, pending_priority_queue, pending_resource_queue,
                    kill_event, config, forwarders, cpc, locals, calls, nresource, ghosts >>

\* A producer puts the 'STOP' sentinel on the priority queue.
ProduceStop ==
    /\ ~kill_event
    /\ Len(sent) + nresource < MaxItems
    /\ priority_queue' = Put(priority_queue, <<STOP, Addr>>)
    /\ sent' = Append(sent, STOP)
    /\ UNCHANGED << resource_queue, pending_priority_queue, pending_resource_queue,
                    kill_event, config, forwarders, cpc, locals, calls, nresource, ghosts >>

\* A producer puts a resource message on the resource queue.
ProduceResource ==
    /\ ~kill_event
    /\ Len(sent) + nresource < MaxItems
    /\ resource_queue' = Put(resource_queue, <<ResourcePayload(nresource + 1), Addr>>)
    /\ nresource' = nresource + 1
    /\ UNCHANGED << priority_queue, pending_priority_queue, pending_resource_queue,
                    kill_event, config, forwarders, cpc, locals, calls, sent, ghosts >>

\* --------------------------------------------------------------- forwarders
\* _migrate_logs_to_internal(logs_queue, queue_tag, kill_event)
IngressOf(t) == IF t = "priority" THEN priority_queue ELSE resource_queue

\* The pending queue of the _get_messages_in_batch call that is running or
\* that returned last ("none" once the loop condition is being evaluated).
CallQueue ==
    IF cpc \in {"p_collect", "r_interval", "r_start"}
    THEN "priority"
    ELSE IF cpc \in {"r_collect", "loop_kill"} THEN "resource" ELSE "none"

\* Mutant: the loop condition without the test of the flag.
ForwarderWithoutKillTest(t) ==
    /\ fpc[t] = "test_kill"
    /\ fpc' = [fpc EXCEPT ![t] = "test_qsize"]
    /\ UNCHANGED << queues, kill_event, config, fx, cpc, locals, calls, producers, ghosts >>

\* while not kill_event.is_set() ...
ForwarderTestKill(t) ==
    /\ fpc[t] = "test_kill"
    /\ fpc' = [fpc EXCEPT ![t] = IF ~kill_event THEN "get" ELSE "test_qsize"]
    /\ UNCHANGED << queues, kill_event, config, fx, cpc, locals, calls, producers, ghosts >>

\* ... or logs_queue.qsize() != 0
ForwarderTestQsize(t) ==
    /\ fpc[t] = "test_qsize"
    /\ fpc' = [fpc EXCEPT ![t] = IF qsize(IngressOf(t)) # 0 THEN "get" ELSE "done"]
    /\ UNCHANGED << queues, kill_event, config, fx, cpc, locals, calls, producers, ghosts >>

\* Mutant: the forwarder reads the head of its queue and leaves it there.
ForwarderPeek(t) ==
    /\ fpc[t] = "get"
    /\ IF IngressOf(t) = <<>>
       THEN /\ fpc' = [fpc EXCEPT ![t] = "test_kill"]
            /\ UNCHANGED fx
       ELSE /\ fx' = [fx EXCEPT ![t] = Head(IngressOf(t))[1]]
            /\ fpc' = [fpc EXCEPT ![t] = "dispatch"]
    /\ UNCHANGED << queues, kill_event, config, cpc, locals, calls, producers, ghosts >>

\* x, addr = logs_queue.get(block=False); queue.Empty: continue
ForwarderGet(t) ==
    /\ fpc[t] = "get"
    /\ IF IngressOf(t) = <<>>
       THEN /\ fpc' = [fpc EXCEPT ![t] = "test_kill"]
            /\ UNCHANGED << priority_queue, resource_queue, fx >>
       ELSE /\ fx' = [fx EXCEPT ![t] = Head(IngressOf(t))[1]]
            /\ fpc' = [fpc EXCEPT ![t] = "dispatch"]
            /\ IF t = "priority"
               THEN priority_queue' = Tail(priority_queue) /\ UNCHANGED resource_queue
               ELSE resource_queue' = Tail(resource_queue) /\ UNCHANGED priority_queue
    /\ UNCHANGED << pending_priority_queue, pending_resource_queue, kill_event, config,
                    cpc, locals, calls, producers, ghosts >>

\* Mutant: no payload is taken for the sentinel.
IsStopNever(x) == FALSE

\* x == 'STOP'
IsStop(x) == x = STOP

\* The else branch of the try: 'STOP' on the priority queue calls close(),
\* any other x goes to the pending queue of the tag (x[-1] for 'resource').
ForwarderDispatch(t) ==
    /\ fpc[t] = "dispatch"
    /\ IF t = "priority"
       THEN IF IsStop(fx[t])
            THEN /\ fpc' = [fpc EXCEPT ![t] = "close_interval"]
                 /\ UNCHANGED << pending_priority_queue, pending_resource_queue, fx,
                                 call_appended >>
            ELSE /\ pending_priority_queue' = Put(pending_priority_queue, fx[t])
                 /\ fpc' = [fpc EXCEPT ![t] = "test_kill"]
                 /\ fx' = [fx EXCEPT ![t] = <<>>]
                 /\ call_appended' = (call_appended \/ CallQueue = "priority")
                 /\ UNCHANGED pending_resource_queue
       ELSE /\ pending_resource_queue' = Put(pending_resource_queue, Last(fx[t]))
            /\ fpc' = [fpc EXCEPT ![t] = "test_kill"]
            /\ fx' = [fx EXCEPT ![t] = <<>>]
            /\ call_appended' = (call_appended \/ CallQueue = "resource")
            /\ UNCHANGED pending_priority_queue
    /\ UNCHANGED << priority_queue, resource_queue, kill_event, config, cpc, locals,
                    calls, producers, call_snapshot, call_expired >>

\* close(): self.batching_interval, self.batching_threshold = inf, inf is two
\* attribute stores, then self._kill_event.set().
\* Mutant: close() leaves self.batching_interval as it is.
CloseWithoutInterval ==
    /\ fpc["priority"] = "close_interval"
    /\ fpc' = [fpc EXCEPT !["priority"] = "close_threshold"]
    /\ UNCHANGED << queues, kill_event, config, fx, cpc, locals, calls, producers, ghosts >>

CloseInterval ==
    /\ fpc["priority"] = "close_interval"
    /\ batching_interval' = Inf
    /\ fpc' = [fpc EXCEPT !["priority"] = "close_threshold"]
    /\ UNCHANGED << queues, kill_event, batching_threshold, fx, cpc, locals, calls,
                    producers, ghosts >>

CloseThreshold ==
    /\ fpc["priority"] = "close_threshold"
    /\ batching_threshold' = Inf
    /\ fpc' = [fpc EXCEPT !["priority"] = "close_set"]
    /\ UNCHANGED << queues, kill_event, batching_interval, fx, cpc, locals, calls,
                    producers, ghosts >>

\* Mutant: close() flips the flag.
CloseFlip ==
    /\ fpc["priority"] = "close_set"
    /\ kill_event' = ~kill_event
    /\ fpc' = [fpc EXCEPT !["priority"] = "test_kill"]
    /\ fx' = [fx EXCEPT !["priority"] = <<>>]
    /\ UNCHANGED << queues, config, cpc, locals, calls, producers, ghosts >>

CloseSet ==
    /\ fpc["priority"] = "close_set"
    /\ kill_event' = TRUE
    /\ fpc' = [fpc EXCEPT !["priority"] = "test_kill"]
    /\ fx' = [fx EXCEPT !["priority"] = <<>>]
    /\ UNCHANGED << queues, config, cpc, locals, calls, producers, ghosts >>

\* -------------------------------------------------------------- coordinator
\* while (not self._kill_event.is_set() or ...
\* A new cycle begins with the evaluation of the loop condition: the record
\* of the last cycle's calls is emptied.  messages and the arguments of the
\* last call are not read again before they are assigned: the model forgets
\* them here.
LoopKill ==
    /\ cpc = "loop_kill"
    /\ cpc' = IF ~kill_event THEN "p_interval" ELSE "loop_pending_priority"
    /\ cycle_calls' = <<>>
    /\ messages' = <<>>
    /\ interval' = Fin(0)
    /\ threshold' = Fin(0)
    /\ call_snapshot' = <<>>
    /\ call_appended' = FALSE
    /\ call_expired' = FALSE
    /\ UNCHANGED << queues, kill_event, config, forwarders, batch, update_messages,
                    insert_messages, all_messages, db, failure, producers >>

\* Mutant: the loop condition without the test of the priority pending queue.
LoopWithoutPendingPriority ==
    /\ cpc = "loop_pending_priority"
    /\ cpc' = "loop_pending_resource"
    /\ UNCHANGED << queues, kill_event, config, forwarders, locals, calls, producers, ghosts >>

\* ... self.pending_priority_queue.qsize() != 0 or ...
LoopPendingPriority ==
    /\ cpc = "loop_pending_priority"
    /\ cpc' = IF qsize(pending_priority_queue) # 0 THEN "p_interval" ELSE "loop_pending_resource"
    /\ UNCHANGED << queues, kill_event, config, forwarders, locals, calls, producers, ghosts >>

\* ... self.pending_resource_queue.qsize() != 0 or ...
LoopPendingResource ==
    /\ cpc = "loop_pending_resource"
    /\ cpc' = IF qsize(pending_resource_queue) # 0 THEN "p_interval" ELSE "loop_priority_queue"
    /\ UNCHANGED << queues, kill_event, config, forwarders, locals, calls, producers, ghosts >>

\* ... priority_queue.qsize() != 0 or ...
LoopPriorityQueue ==
    /\ cpc = "loop_priority_queue"
    /\ cpc' = IF qsize(priority_queue) # 0 THEN "p_interval" ELSE "loop_resource_queue"
    /\ UNCHANGED << queues, kill_event, config, forwarders, locals, calls, producers, ghosts >>

\* ... resource_queue.qsize() != 0): the loop ends when this is false too.
LoopResourceQueue ==
    /\ cpc = "loop_resource_queue"
    /\ cpc' = IF qsize(resource_queue) # 0 THEN "p_interval" ELSE "stopped"
    /\ UNCHANGED << queues, kill_event, config, forwarders, locals, calls, producers, ghosts >>

\* interval=self.batching_interval, evaluated before the call.
ReadInterval ==
    /\ cpc \in {"p_interval", "r_interval"}
    /\ interval' = batching_interval
    /\ cpc' = IF cpc = "p_interval" THEN "p_start" ELSE "r_start"
    /\ call_snapshot' = <<>>
    /\ UNCHANGED << queues, kill_event, config, forwarders, threshold, batch, messages,
                    update_messages, insert_messages, all_messages, calls, producers,
                    call_appended, call_expired >>

\* threshold=self.batching_threshold, then the call begins:
\* messages = []; start = time.time()
\* The priority batch in start()'s messages is not read again before the
\* result of the second call is assigned to it: the model forgets it here.
StartBatch ==
    /\ cpc \in {"p_start", "r_start"}
    /\ threshold' = batching_threshold
    /\ batch' = <<>>
    /\ messages' = IF cpc = "r_start" THEN <<>> ELSE messages
    /\ cpc' = IF cpc = "p_start" THEN "p_collect" ELSE "r_collect"
    /\ call_snapshot' = IF cpc = "p_start" THEN pending_priority_queue
                                          ELSE pending_resource_queue
    /\ call_appended' = FALSE
    /\ call_expired' = FALSE
    /\ UNCHANGED << queues, kill_event, config, forwarders, interval,
                    update_messages, insert_messages, all_messages, calls, producers >>

\* Mutant: len(messages) > threshold.
BatchBreakLate(elapsed, itv, n, thr) == Geq(elapsed, itv) \/ Geq(n - 1, thr)

\* if time.time() - start >= interval or len(messages) >= threshold: break
BatchBreak(elapsed, itv, n, thr) == Geq(elapsed, itv) \/ Geq(n, thr)

\* Mutant: every TASK_INFO message joins update_messages.
UpdateGroupAlways(upd, msg) == Append(upd, msg)

\* The Task groups of a TASK_INFO message (lines 230-233).
UpdateGroup(upd, msg) ==
    IF msg["task_time_returned"] # None THEN Append(upd, msg) ELSE upd
InsertGroup(ins, msg) ==
    IF msg["task_time_returned"] # None THEN ins ELSE Append(ins, msg)

\* update_messages, insert_messages, all_messages = [], [], [] and no call yet.
NoGroups ==
    [loop_calls |-> <<>>, update_messages |-> <<>>, insert_messages |-> <<>>,
     all_messages |-> <<>>]

\* Mutant: every WORKFLOW_INFO message is inserted.
ClassifyStepAlwaysInsert(g, item) ==
    LET msg_type == item[1]
        msg == item[2]
    IN  IF msg_type = WORKFLOW_INFO
        THEN [g EXCEPT !.loop_calls = Append(@, InsertCall(WORKFLOW, <<msg>>))]
        ELSE [g EXCEPT !.all_messages = Append(@, msg),
                       !.update_messages = UpdateGroup(@, msg),
                       !.insert_messages = InsertGroup(@, msg)]

\* One iteration of: for msg_type, msg in messages
ClassifyStep(g, item) ==
    LET msg_type == item[1]
        msg == item[2]
    IN  IF msg_type = WORKFLOW_INFO
        THEN IF "python_version" \in DOMAIN msg
             THEN [g EXCEPT !.loop_calls = Append(@, InsertCall(WORKFLOW, <<msg>>))]
             ELSE [g EXCEPT !.loop_calls =
                       Append(@, UpdateCall(WORKFLOW, WorkflowEndColumns, <<msg>>))]
        ELSE [g EXCEPT !.all_messages = Append(@, msg),
                       !.update_messages = UpdateGroup(@, msg),
                       !.insert_messages = InsertGroup(@, msg)]

\* The for loop over the batch.
RECURSIVE ClassifyLoop(_, _)
ClassifyLoop(g, msgs) ==
    IF msgs = <<>> THEN g ELSE ClassifyLoop(ClassifyStep(g, Head(msgs)), Tail(msgs))

\* Mutant: the Status insert is given insert_messages.
StatusMessagesInsertOnly(g) == g.insert_messages

\* The messages of the Workflow counter update and of the Status insert.
CounterMessages(g) == g.update_messages
StatusMessages(g) == g.all_messages

\* The four statements after the for loop.
CounterUpdate(g) == << UpdateCall(WORKFLOW, WorkflowCounterColumns, CounterMessages(g)) >>
TaskInsert(g) ==
    IF g.insert_messages # <<>> THEN << InsertCall(TASK, g.insert_messages) >> ELSE <<>>
TaskUpdate(g) ==
    IF g.update_messages # <<>>
    THEN << UpdateCall(TASK, TaskUpdateColumns, g.update_messages) >> ELSE <<>>
StatusInsert(g) == << InsertCall(STATUS, StatusMessages(g)) >>

\* Mutant: the Task update is made before the Task insert.
RouteCallsUpdateFirst(g) ==
    g.loop_calls \o CounterUpdate(g) \o TaskUpdate(g) \o TaskInsert(g) \o StatusInsert(g)

\* Mutant: the Status insert is made before the other three.
RouteCallsStatusFirst(g) ==
    g.loop_calls \o StatusInsert(g) \o CounterUpdate(g) \o TaskInsert(g) \o TaskUpdate(g)

\* The calls start() makes for a priority batch, in the order it makes them:
\* those of the for loop, then lines 236-246.
RouteCalls(g) ==
    g.loop_calls \o CounterUpdate(g) \o TaskInsert(g) \o TaskUpdate(g) \o StatusInsert(g)

\* The rows of the run after the calls cs: each call appends its messages,
\* in their order, to the rows of its destination.
RECURSIVE Persist(_, _)
Persist(rows, cs) ==
    IF cs = <<>> THEN rows
    ELSE Persist([rows EXCEPT ![Group(Head(cs))] = @ \o Head(cs).messages], Tail(cs))

\* Calls are made: they are recorded for the cycle, and their messages for
\* the run.
Issue(cs) ==
    /\ cycle_calls' = cycle_calls \o cs
    /\ db' = Persist(db, cs)

\* The priority batch is returned to start(), which routes it (lines
\* 215-246).  These statements read and write nothing another thread
\* touches, so they are one step with the iteration that ends the call.
PriorityReturn(expired) ==
    LET g == ClassifyLoop(NoGroups, batch)
    IN  /\ messages' = batch
        /\ batch' = <<>>
        /\ call_expired' = expired
        /\ update_messages' = g.update_messages
        /\ insert_messages' = g.insert_messages
        /\ all_messages' = g.all_messages
        /\ Issue(RouteCalls(g))
        /\ cpc' = "r_interval"
        /\ UNCHANGED << queues, failure, call_snapshot, call_appended >>

\* One iteration of the while True loop of _get_messages_in_batch on the
\* priority pending queue.
CollectPriority ==
    /\ cpc = "p_collect"
    /\ \E elapsed \in 0..MaxElapsed :
          IF BatchBreak(elapsed, interval, Len(batch), threshold)
          THEN PriorityReturn(Geq(elapsed, interval))
          ELSE IF pending_priority_queue = <<>>
               THEN PriorityReturn(FALSE)
               ELSE /\ batch' = Append(batch, Head(pending_priority_queue))
                    /\ pending_priority_queue' = Tail(pending_priority_queue)
                    /\ UNCHANGED << priority_queue, resource_queue, pending_resource_queue,
                                    messages, update_messages, insert_messages,
                                    all_messages, cpc, calls, ghosts >>
    /\ UNCHANGED << kill_event, config, forwarders, interval, threshold, producers >>

\* The resource batch is returned to start(), which inserts it (lines
\* 256-258); the body ends and the loop condition is evaluated again.
ResourceReturn(expired) ==
    /\ messages' = batch
    /\ batch' = <<>>
    /\ call_expired' = expired
    /\ update_messages' = <<>>
    /\ insert_messages' = <<>>
    /\ all_messages' = <<>>
    /\ Issue(<< InsertCall(RESOURCE, batch) >>)
    /\ cpc' = "loop_kill"
    /\ UNCHANGED << queues, failure, call_snapshot, call_appended >>

\* One iteration of the while True loop of _get_messages_in_batch on the
\* resource pending queue.
CollectResource ==
    /\ cpc = "r_collect"
    /\ \E elapsed \in 0..MaxElapsed :
          IF BatchBreak(elapsed, interval, Len(batch), threshold)
          THEN ResourceReturn(Geq(elapsed, interval))
          ELSE IF pending_resource_queue = <<>>
               THEN ResourceReturn(FALSE)
               ELSE /\ batch' = Append(batch, Head(pending_resource_queue))
                    /\ pending_resource_queue' = Tail(pending_resource_queue)
                    /\ UNCHANGED << priority_queue, resource_queue, pending_priority_queue,
                                    messages, update_messages, insert_messages,
                                    all_messages, cpc, calls, ghosts >>
    /\ UNCHANGED << kill_event, config, forwarders, interval, threshold, producers >>

\* ----------------------------------------------------------------- failures
\* Inputs that make a persistence call or the classifier raise.
\* A TASK_INFO message without the key the classifier reads (line 230).
TaskWithoutReturn(i) == [id |-> i, run_id |-> "r1", task_id |-> "t1"]
\* A TASK_INFO message without a column of the Task update (line 244).
TaskWithoutId(i) == [id |-> i, run_id |-> "r1", task_time_returned |-> "2024-01-01T00:00:01"]

MalformedPayloads(i) ==
    { <<TASK_INFO, TaskWithoutReturn(i)>>, <<TASK_INFO, TaskWithoutId(i)>> }

\* A producer puts a task message that lacks a field on the priority queue.
ProduceMalformed ==
    /\ ~kill_event
    /\ Len(sent) + nresource < MaxItems
    /\ \E x \in MalformedPayloads(Len(sent) + 1) :
          /\ priority_queue' = Put(priority_queue, <<x, Addr>>)
          /\ sent' = Append(sent, x)
    /\ UNCHANGED << resource_queue, pending_priority_queue, pending_resource_queue,
                    kill_event, config, forwarders, cpc, locals, calls, nresource, ghosts >>

\* A producer puts the string 'STOP' on the resource queue.
ProduceResourceStop ==
    /\ ~kill_event
    /\ Len(sent) + nresource < MaxItems
    /\ resource_queue' = Put(resource_queue, <<STOP, Addr>>)
    /\ nresource' = nresource + 1
    /\ UNCHANGED << priority_queue, pending_priority_queue, pending_resource_queue,
                    kill_event, config, forwarders, cpc, locals, calls, sent, ghosts >>

\* The fields the model's messages carry.  Every other column of a table is
\* taken to be present in every message.
ModelFields == {"run_id", "task_id", "task_time_returned"}

\* table.c.keys(), the columns of an insert (lines 88-89), of which the
\* model keeps those in ModelFields.
TableColumns(table) ==
    CASE table = WORKFLOW -> <<"run_id">>
      [] table = STATUS -> <<"task_id", "run_id">>
      [] table = TASK -> <<"task_id", "run_id", "task_time_returned">>
      [] table = RESOURCE -> <<"task_id", "run_id">>

\* The columns _generate_mappings reads from each message of a call.
CallColumns(call) ==
    IF call.op = "insert" THEN Range(TableColumns(call.table))
                          ELSE Range(call.columns) \cap ModelFields

\* m[column] = msg[column] raises for a message without the column.
MappingRaises(call) ==
    \E k \in DOMAIN call.messages :
        \E column \in CallColumns(call) : column \notin DOMAIN call.messages[k]

\* The call start() makes for a WORKFLOW_INFO message (lines 220-227).
WorkflowCall(msg) ==
    IF "python_version" \in DOMAIN msg
    THEN InsertCall(WORKFLOW, <<msg>>)
    ELSE UpdateCall(WORKFLOW, WorkflowEndColumns, <<msg>>)

\* What an iteration of the for loop raises on the item, if it does: the
\* call whose mapping raises, or the lookup of line 230.
KeyError(msg) == [op |-> "lookup", table |-> TASK, messages |-> <<msg>>]
ClassifyRaises(item) ==
    IF item[1] = WORKFLOW_INFO
    THEN IF MappingRaises(WorkflowCall(item[2])) THEN << WorkflowCall(item[2]) >> ELSE <<>>
    ELSE IF "task_time_returned" \notin DOMAIN item[2] THEN << KeyError(item[2]) >> ELSE <<>>

\* The for loop over the batch, which ends at the first iteration that
\* raises: g.raised holds what was raised.
RECURSIVE ClassifyUntilRaise(_, _)
ClassifyUntilRaise(g, msgs) ==
    IF msgs = <<>> THEN g
    ELSE IF ClassifyRaises(Head(msgs)) # <<>>
         THEN [g EXCEPT !.raised = ClassifyRaises(Head(msgs))]
         ELSE ClassifyUntilRaise(ClassifyStep(g, Head(msgs)), Tail(msgs))

\* The calls before the first one whose mapping raises, and that one.
RECURSIVE UntilRaise(_, _)
UntilRaise(done, cs) ==
    IF cs = <<>> THEN [calls |-> done, raised |-> <<>>]
    ELSE IF MappingRaises(Head(cs)) THEN [calls |-> done, raised |-> << Head(cs) >>]
         ELSE UntilRaise(Append(done, Head(cs)), Tail(cs))

\* The routing of a priority batch (lines 217-246) when no call is rejected
\* by the database: the calls that complete, in order, and what is raised.
RoutePriority(items) ==
    LET g == ClassifyUntilRaise([loop_calls |-> <<>>, update_messages |-> <<>>,
                                 insert_messages |-> <<>>, all_messages |-> <<>>,
                                 raised |-> <<>>], items)
    IN  IF g.raised # <<>>
        THEN [calls |-> g.loop_calls, raised |-> g.raised]
        ELSE UntilRaise(<<>>, RouteCalls(g))

\* The insert of a resource batch (line 258).
RouteResource(items) == UntilRaise(<<>>, << InsertCall(RESOURCE, items) >>)

\* Mutant: the exception of a rejected call is swallowed and the loop goes on.
AfterRaiseContinue(raised, next) == next

\* Where start() is after the routing: an exception leaves the loop and
\* the function (there is no try in start()).
AfterRaise(raised, next) == IF raised = <<>> THEN next ELSE "failed"

\* The routing r of the batch, of which the database accepts the first k
\* calls: these are issued; the next call, if there is one, raises (the
\* session's commit or bulk operation fails), else what r raises is raised.
\* The frame of start() is gone after an exception: its locals are
\* forgotten, the batch is kept with the failure.
Routed(r, k, next) ==
    LET raised == IF k < Len(r.calls) THEN << r.calls[k + 1] >> ELSE r.raised
    IN  /\ Issue(Take(r.calls, k))
        /\ cpc' = AfterRaise(raised, next)
        /\ failure' = IF raised = <<>> THEN failure
                       ELSE << [raised |-> raised[1], batch |-> batch,
                                tag |-> IF next = "r_interval" THEN "priority"
                                                               ELSE "resource",
                                sent |-> Len(sent), nresource |-> nresource] >>
        /\ messages' = IF raised = <<>> THEN batch ELSE <<>>
        /\ batch' = <<>>

\* The priority batch is returned to start(), which routes it; any call may
\* be rejected by the database.
PriorityReturnOrRaise(expired) ==
    LET r == RoutePriority(batch)
        g == ClassifyLoop(NoGroups, batch)
    IN  \E k \in 0..Len(r.calls) :
          LET ok == k = Len(r.calls) /\ r.raised = <<>>
          IN  /\ Routed(r, k, "r_interval")
              /\ call_expired' = expired
              /\ update_messages' = IF ok THEN g.update_messages ELSE <<>>
              /\ insert_messages' = IF ok THEN g.insert_messages ELSE <<>>
              /\ all_messages' = IF ok THEN g.all_messages ELSE <<>>
              /\ UNCHANGED << queues, call_snapshot, call_appended >>

\* CollectPriority with calls that may raise.
CollectPriorityOrRaise ==
    /\ cpc = "p_collect"
    /\ \E elapsed \in 0..MaxElapsed :
          IF BatchBreak(elapsed, interval, Len(batch), threshold)
          THEN PriorityReturnOrRaise(Geq(elapsed, interval))
          ELSE IF pending_priority_queue = <<>>
               THEN PriorityReturnOrRaise(FALSE)
               ELSE /\ batch' = Append(batch, Head(pending_priority_queue))
                    /\ pending_priority_queue' = Tail(pending_priority_queue)
                    /\ UNCHANGED << priority_queue, resource_queue, pending_resource_queue,
                                    messages, update_messages, insert_messages,
                                    all_messages, cpc, calls, ghosts >>
    /\ UNCHANGED << kill_event, config, forwarders, interval, threshold, producers >>

\* The resource batch is returned to start(), which inserts it; the call
\* may be rejected by the database.
ResourceReturnOrRaise(expired) ==
    LET r == RouteResource(batch)
    IN  \E k \in 0..Len(r.calls) :
          /\ Routed(r, k, "loop_kill")
          /\ call_expired' = expired
          /\ update_messages' = <<>>
          /\ insert_messages' = <<>>
          /\ all_messages' = <<>>
          /\ UNCHANGED << queues, call_snapshot, call_appended >>

\* CollectResource with a call that may raise.
CollectResourceOrRaise ==
    /\ cpc = "r_collect"
    /\ \E elapsed \in 0..MaxElapsed :
          IF BatchBreak(elapsed, interval, Len(batch), threshold)
          THEN ResourceReturnOrRaise(Geq(elapsed, interval))
          ELSE IF pending_resource_queue = <<>>
               THEN ResourceReturnOrRaise(FALSE)
               ELSE /\ batch' = Append(batch, Head(pending_resource_queue))
                    /\ pending_resource_queue' = Tail(pending_resource_queue)
                    /\ UNCHANGED << priority_queue, resource_queue, pending_priority_queue,
                                    messages, update_messages, insert_messages,
                                    all_messages, cpc, calls, ghosts >>
    /\ UNCHANGED << kill_event, config, forwarders, interval, threshold, producers >>

\* ---------------------------------------------------------- specification
Next ==
    \/ ProducePriority
    \/ ProduceStop
    \/ ProduceResource
    \/ \E t \in Tags : ForwarderTestKill(t)
    \/ \E t \in Tags : ForwarderTestQsize(t)
    \/ \E t \in Tags : ForwarderGet(t)
    \/ \E t \in Tags : ForwarderDispatch(t)
    \/ CloseInterval
    \/ CloseThreshold
    \/ CloseSet
    \/ LoopKill
    \/ LoopPendingPriority
    \/ LoopPendingResource
    \/ LoopPriorityQueue
    \/ LoopResourceQueue
    \/ ReadInterval
    \/ StartBatch
    \/ CollectPriority
    \/ CollectResource

Spec == Init /\ [][Next]_vars

\* The steps of one forwarder thread and of the coordinator.
ForwarderNext(t) ==
    \/ ForwarderTestKill(t)
    \/ ForwarderTestQsize(t)
    \/ ForwarderGet(t)
    \/ ForwarderDispatch(t)
    \/ (t = "priority" /\ (CloseInterval \/ CloseThreshold \/ CloseSet))

CoordinatorNext ==
    \/ LoopKill
    \/ LoopPendingPriority
    \/ LoopPendingResource
    \/ LoopPriorityQueue
    \/ LoopResourceQueue
    \/ ReadInterval
    \/ StartBatch
    \/ CollectPriority
    \/ CollectResource

\* The threads are scheduled fairly: a thread that can take a step
\* eventually takes one.
\* The manager is constructed with the default batching parameters.
InitDefault ==
    /\ Init
    /\ batching_interval = Fin(DefaultInterval)
    /\ batching_threshold = Fin(DefaultThreshold)

FairSpec ==
    /\ InitDefault
    /\ [][Next]_vars
    /\ \A t \in Tags : WF_vars(ForwarderNext(t))
    /\ WF_vars(CoordinatorNext)

\* The runs in which messages may lack a field, the resource queue may
\* carry 'STOP' and the database may reject a call.
NextOrRaise ==
    \/ ProducePriority
    \/ ProduceStop
    \/ ProduceResource
    \/ ProduceMalformed
    \/ ProduceResourceStop
    \/ \E t \in Tags : ForwarderTestKill(t)
    \/ \E t \in Tags : ForwarderTestQsize(t)
    \/ \E t \in Tags : ForwarderGet(t)
    \/ \E t \in Tags : ForwarderDispatch(t)
    \/ CloseInterval
    \/ CloseThreshold
    \/ CloseSet
    \/ LoopKill
    \/ LoopPendingPriority
    \/ LoopPendingResource
    \/ LoopPriorityQueue
    \/ LoopResourceQueue
    \/ ReadInterval
    \/ StartBatch
    \/ CollectPriorityOrRaise
    \/ CollectResourceOrRaise

SpecOrRaise == InitDefault /\ [][NextOrRaise]_vars

\* ------------------------------------------------------------------ claims
\* Positions of the priority messages (not 'STOP') in the enqueue order.
PriorityIds == { i \in DOMAIN sent : sent[i] # STOP }

\* The priority messages enqueued before the first 'STOP'.
BeforeStop == { i \in PriorityIds : \A j \in 1..i : sent[j] # STOP }

\* The message was passed to an insert or update call.
Persisted(msg) == \E g \in Groups : msg \in Range(db[g])

Count(seq, x) == Cardinality({ k \in DOMAIN seq : seq[k] = x })

IsTaskItem(item) == item[1] # WORKFLOW_INFO

\* The messages of the TASK_INFO items of a batch, in order.
RECURSIVE TaskMessages(_)
TaskMessages(items) ==
    IF items = <<>> THEN <<>>
    ELSE IF IsTaskItem(Head(items))
         THEN << Head(items)[2] >> \o TaskMessages(Tail(items))
         ELSE TaskMessages(Tail(items))

\* The calls of the current cycle with destination g.
CycleCallsTo(g) == SelectSeq(cycle_calls, LAMBDA c : Group(c) = g)

\* The coordinator has routed the priority batch of the current cycle, which
\* messages still holds.
PriorityRouted == cpc \in {"r_interval", "r_start"}

\* The last _get_messages_in_batch call has returned and its arguments and
\* its result are still in place.
PriorityReturned == cpc = "r_interval"
ResourceReturned == cpc = "loop_kill"
ReturnedQueue ==
    IF PriorityReturned THEN pending_priority_queue ELSE pending_resource_queue

\* A forwarder holds a message it has taken from its ingress queue and has
\* not yet put on its pending queue.
Holding(t) == fpc[t] = "dispatch" /\ fx[t] # STOP

\* C1: when the coordinator's loop has exited, every workflow/task message
\* enqueued on the priority queue before the 'STOP' sentinel has been passed
\* to an insert or update call.
C1_DrainCompleteness ==
    cpc = "stopped" => \A i \in BeforeStop : Persisted(sent[i][2])

\* Two messages were enqueued before 'STOP', the loop has exited and both
\* were persisted.
C1_Witness ==
    /\ cpc = "stopped"
    /\ Cardinality(BeforeStop) >= 2
    /\ \A i \in BeforeStop : Persisted(sent[i][2])

\* C2: when the coordinator's loop has exited, every resource message
\* enqueued on the resource queue (all were enqueued before the shutdown
\* flag was set) has been passed to a Resource insert call.
C2_NoResourceLoss ==
    cpc = "stopped" =>
        \A i \in 1..nresource : ResourceMsg(i) \in Range(db[<< "insert", RESOURCE >>])

\* C3: when the coordinator's loop has exited, the shutdown flag is set, both
\* pending queues and both ingress queues are empty and no forwarder holds
\* a message it has not yet appended.
C3_StoppedMeansDrained ==
    cpc = "stopped" =>
        /\ kill_event
        /\ pending_priority_queue = <<>>
        /\ pending_resource_queue = <<>>
        /\ priority_queue = <<>>
        /\ resource_queue = <<>>
        /\ \A t \in Tags : ~Holding(t)

\* C4: in every cycle each task message of the priority batch is in exactly
\* one of insert_messages and update_messages, once: in insert_messages iff
\* its task_time_returned is None, in update_messages iff it is not; and
\* the Task insert and Task update calls of the cycle carry exactly these
\* two lists.
C4_InsertUpdateExclusive ==
    PriorityRouted =>
        /\ \A k \in DOMAIN messages :
              IsTaskItem(messages[k]) =>
                  LET msg == messages[k][2]
                      absent == msg["task_time_returned"] = None
                  IN  /\ Count(insert_messages, msg) = (IF absent THEN 1 ELSE 0)
                      /\ Count(update_messages, msg) = (IF absent THEN 0 ELSE 1)
        /\ \A c \in Range(CycleCallsTo(<< "insert", TASK >>)) : c.messages = insert_messages
        /\ \A c \in Range(CycleCallsTo(<< "update", TASK, TaskUpdateColumns >>)) :
              c.messages = update_messages

\* A routed batch with a task message in each of the two groups.
C4_Witness ==
    /\ PriorityRouted
    /\ insert_messages # <<>>
    /\ update_messages # <<>>
    /\ CycleCallsTo(<< "insert", TASK >>) # <<>>
    /\ CycleCallsTo(<< "update", TASK, TaskUpdateColumns >>) # <<>>

\* A task message is still on its way to the coordinator's routing: on the
\* ingress queue, held by the forwarder, on the pending queue or in the
\* batch being collected.
InFlight(i) ==
    \/ << sent[i], Addr >> \in Range(priority_queue)
    \/ (fpc["priority"] = "dispatch" /\ fx["priority"] = sent[i])
    \/ sent[i] \in Range(pending_priority_queue)
    \/ (cpc = "p_collect" /\ sent[i] \in Range(batch))

\* C5: every task message extracted from the priority pending queue and
\* routed has exactly one row among the rows passed to Status inserts,
\* whether it went to the Task insert or the Task update (a message not yet
\* routed has none); a routed batch gives exactly one Status insert call,
\* which carries its task messages; no update of Status is ever issued.
C5_StatusAppendOnly ==
    /\ \A i \in PriorityIds :
          IsTaskItem(sent[i]) =>
              Count(db[<< "insert", STATUS >>], sent[i][2]) = (IF InFlight(i) THEN 0 ELSE 1)
    /\ PriorityRouted =>
          /\ Len(CycleCallsTo(<< "insert", STATUS >>)) = 1
          /\ CycleCallsTo(<< "insert", STATUS >>)[1].messages = TaskMessages(messages)
    /\ \A k \in DOMAIN cycle_calls :
          ~(cycle_calls[k].op = "update" /\ cycle_calls[k].table = STATUS)

\* A message routed to the Task update and one routed to the Task insert
\* each have their Status row.
C5_Witness ==
    /\ \E m \in Range(db[<< "update", TASK, TaskUpdateColumns >>]) :
          Count(db[<< "insert", STATUS >>], m) = 1
    /\ \E m \in Range(db[<< "insert", TASK >>]) :
          Count(db[<< "insert", STATUS >>], m) = 1

\* C6: the messages passed to one destination are in the order in which
\* their ingress queue received them: of two messages of one destination,
\* the one enqueued first is in an earlier call or earlier in the same call.
C6_FifoWithinSource ==
    \A g \in Groups :
        \A i, j \in DOMAIN db[g] : i < j => db[g][i].id < db[g][j].id

\* Two priority messages reached the same destination, and so did two
\* resource messages in another run.
C6_Witness ==
    \E g \in Groups : Len(db[g]) >= 2

\* C7: a batch never holds more than threshold items, during the call and
\* when it has returned; a call during which no forwarder appended and
\* whose time budget did not expire returns the first min(n, threshold) of
\* the n items the pending queue held when it began and leaves the others.
C7_BatchBounding ==
    /\ (cpc \in {"p_collect", "r_collect"} /\ ~threshold.inf) => Len(batch) <= threshold.n
    /\ ((PriorityRouted \/ ResourceReturned) /\ ~threshold.inf) => Len(messages) <= threshold.n
    /\ ((PriorityReturned \/ ResourceReturned) /\ ~call_appended /\ ~call_expired) =>
          LET n == Len(call_snapshot)
              k == IF threshold.inf THEN n ELSE Min(n, threshold.n)
          IN  /\ messages = Take(call_snapshot, k)
              /\ ReturnedQueue = Drop(call_snapshot, k)

\* A call with threshold K on a queue of more than K items returned the
\* first K and left the others.
C7_Witness ==
    /\ PriorityReturned
    /\ ~call_appended
    /\ ~call_expired
    /\ threshold = Fin(SmallThreshold)
    /\ Len(call_snapshot) > SmallThreshold
    /\ Len(messages) = SmallThreshold
    /\ pending_priority_queue = Drop(call_snapshot, SmallThreshold)

\* C8: a call with a zero time budget and an effectively infinite threshold
\* returns every message the pending queue held when the call began and
\* leaves none of them on the queue.
C8_ZeroBudgetDrains ==
    ( /\ PriorityReturned \/ ResourceReturned
      /\ interval = Fin(0)
      /\ (threshold.inf \/ threshold.n >= DefaultThreshold) ) =>
        \A k \in DOMAIN call_snapshot :
            /\ call_snapshot[k] \in Range(messages)
            /\ call_snapshot[k] \notin Range(ReturnedQueue)

\* The place of a call in the order of C9 (0: a call of the for loop).
Rank(call) ==
    CASE Group(call) = << "update", WORKFLOW, WorkflowCounterColumns >> -> 1
      [] Group(call) = << "insert", TASK >> -> 2
      [] Group(call) = << "update", TASK, TaskUpdateColumns >> -> 3
      [] Group(call) = << "insert", STATUS >> -> 4
      [] Group(call) = << "insert", RESOURCE >> -> 5
      [] OTHER -> 0

\* C9: among the calls of one cycle, the Workflow counter update, the Task
\* insert, the Task update, the Status insert and the Resource insert occur
\* in this order, each at most once.
C9_CallOrder ==
    \A i, j \in DOMAIN cycle_calls :
        (i < j /\ Rank(cycle_calls[i]) >= 1 /\ Rank(cycle_calls[j]) >= 1) =>
            Rank(cycle_calls[i]) < Rank(cycle_calls[j])

\* A complete cycle that issued all five calls.
C9_Witness ==
    /\ cpc = "loop_kill"
    /\ { Rank(cycle_calls[k]) : k \in DOMAIN cycle_calls } \ {0} = 1..5

\* C10: a routed priority batch gives exactly one Workflow counter update,
\* and it carries every task message of the batch.
C10_CounterCarriesAllTasks ==
    PriorityRouted =>
        /\ Len(CycleCallsTo(<< "update", WORKFLOW, WorkflowCounterColumns >>)) = 1
        /\ CycleCallsTo(<< "update", WORKFLOW, WorkflowCounterColumns >>)[1].messages
              = TaskMessages(messages)

\* start() has raised: the coordinator's loop was left by an exception.
Failed == cpc = "failed"

\* The pending queue the failed cycle's batch was taken from.
FailedQueue ==
    IF failure[1].tag = "priority" THEN pending_priority_queue ELSE pending_resource_queue

\* The item of a pending queue is a message of the model, which its id tells
\* from every other (the last character of a string is not).
Identified(tag, item) == tag = "priority" \/ "id" \in DOMAIN item

\* C11: a call that fails ends the coordinator's loop: start() has raised as
\* soon as a call has; from then on the coordinator issues no call (the
\* failed call is not made again: its messages are not among the rows of
\* its destination) and stays where it is; and no item of the batch that
\* was taken from the pending queue is on that queue again.
C11_FailurePropagates ==
    /\ [](failure # <<>> => Failed)
    /\ [](Failed =>
            /\ failure # <<>>
            /\ \A k \in DOMAIN failure[1].batch :
                  Identified(failure[1].tag, failure[1].batch[k]) =>
                      failure[1].batch[k] \notin Range(FailedQueue)
            /\ failure[1].raised.op \in {"insert", "update"} =>
                  \A k \in DOMAIN failure[1].raised.messages :
                      failure[1].raised.messages[k]
                          \notin Range(db[Group(failure[1].raised)]))
    /\ [][Failed => (cpc' = cpc /\ db' = db /\ cycle_calls' = cycle_calls
                      /\ failure' = failure)]_vars
    /\ [][(~Failed /\ Failed') => UNCHANGED queues]_vars

\* A call of a batch of two messages was rejected after another call of
\* the cycle had persisted a message; the forwarder has since put a message
\* on the pending queue, where it stays.
C11_Witness ==
    /\ Failed
    /\ failure[1].tag = "priority"
    /\ Len(failure[1].batch) = 2
    /\ failure[1].raised.op = "insert"
    /\ \E g \in Groups : db[g] # <<>>
    /\ pending_priority_queue # <<>>

\* A 'STOP' sentinel was put on the priority queue.
StopSent == \E i \in DOMAIN sent : sent[i] = STOP

\* Both forwarder threads have returned and the coordinator's loop has exited.
AllTerminated == cpc = "stopped" /\ \A t \in Tags : fpc[t] = "done"
NoneTerminated == cpc # "stopped" /\ \A t \in Tags : fpc[t] # "done"

\* C12: when the producers put finitely many messages and a 'STOP' on the
\* priority queue and no call fails, then, the three threads being scheduled
\* fairly, both forwarders eventually return and the coordinator's loop
\* eventually exits; as long as no 'STOP' was put, none of the three has
\* terminated.
C12_Termination ==
    /\ StopSent ~> AllTerminated
    /\ [](~StopSent => NoneTerminated)

\* A message and then 'STOP' were put, the message was persisted and all
\* three threads have terminated.
C12_Witness ==
    /\ AllTerminated
    /\ Len(sent) >= 2
    /\ sent[1] # STOP
    /\ Persisted(sent[1][2])
    /\ sent[Len(sent)] = STOP

\* C13: the shutdown flag, once set, stays set; the step that sets it is the
\* last step of close(), which the priority forwarder runs for a 'STOP' it
\* read from the priority queue (again for a second 'STOP', which leaves the
\* flag set); no step of the resource forwarder changes the flag, whatever
\* it read.
C13_FlagMonotonic ==
    /\ [][kill_event => kill_event']_vars
    /\ [][(~kill_event /\ kill_event') =>
            (fpc["priority"] = "close_set" /\ fx["priority"] = STOP)]_vars
    /\ [][(fpc'["resource"] # fpc["resource"]) => (kill_event' = kill_event)]_vars
    /\ [](kill_event => StopSent)

\* The priority forwarder has read two 'STOP' and returned, the resource
\* forwarder has read a 'STOP' and put its last character on the pending
\* queue, and the flag is set.
C13_Witness ==
    /\ kill_event
    /\ sent = << STOP, STOP >>
    /\ priority_queue = <<>>
    /\ fpc["priority"] = "done"
    /\ pending_resource_queue = << Char("P") >>

\* The pairs (i, j) of C14: the i-th priority message is a task message
\* without return time, the j-th, put later, is a task message of the same
\* (task_id, run_id) with a return time.
TaskPairs ==
    { p \in PriorityIds \X PriorityIds :
        /\ p[1] < p[2]
        /\ IsTaskItem(sent[p[1]]) /\ IsTaskItem(sent[p[2]])
        /\ sent[p[1]][2]["task_time_returned"] = None
        /\ sent[p[2]][2]["task_time_returned"] # None
        /\ sent[p[1]][2]["task_id"] = sent[p[2]][2]["task_id"]
        /\ sent[p[1]][2]["run_id"] = sent[p[2]][2]["run_id"] }

\* The positions in the current cycle of the calls to g that carry msg.
CyclePositions(g, msg) ==
    { k \in DOMAIN cycle_calls :
        Group(cycle_calls[k]) = g /\ msg \in Range(cycle_calls[k].messages) }

\* C14: for a task message without return time and a later one of the same
\* task with a return time: when the Task update has carried the second,
\* the Task insert has carried the first, and if both calls are of the same
\* cycle the insert is the earlier call; the first is never in a Task
\* update, the second never in a Task insert.
C14_InsertBeforeUpdate ==
    \A p \in TaskPairs :
        LET first == sent[p[1]][2]
            second == sent[p[2]][2]
        IN  /\ second \in Range(db[<< "update", TASK, TaskUpdateColumns >>]) =>
                  first \in Range(db[<< "insert", TASK >>])
            /\ \A k \in CyclePositions(<< "update", TASK, TaskUpdateColumns >>, second) :
                  \A h \in CyclePositions(<< "insert", TASK >>, first) : h < k
            /\ first \notin Range(db[<< "update", TASK, TaskUpdateColumns >>])
            /\ second \notin Range(db[<< "insert", TASK >>])

\* Both messages of a pair were in one batch: the cycle made the Task
\* insert with the first and then the Task update with the second.
C14_Witness ==
    \E p \in TaskPairs :
        /\ CyclePositions(<< "insert", TASK >>, sent[p[1]][2]) # {}
        /\ CyclePositions(<< "update", TASK, TaskUpdateColumns >>, sent[p[2]][2]) # {}

\* C15: close() makes both batching parameters infinite before it sets the
\* flag: whenever the flag is set both are infinite.  Hence a
\* _get_messages_in_batch call whose arguments are evaluated when the flag
\* is set gets an infinite interval and an infinite threshold, and a call
\* with these arguments returns only when it finds its queue empty.
C15_CloseOrder ==
    /\ [](kill_event => (batching_interval = Inf /\ batching_threshold = Inf))
    /\ [][(kill_event /\ cpc \in {"p_interval", "r_interval"} /\ cpc' # cpc) =>
            interval' = Inf]_vars
    /\ [][(kill_event /\ cpc \in {"p_start", "r_start"} /\ cpc' # cpc) =>
            threshold' = Inf]_vars
    /\ [][(cpc = "p_collect" /\ cpc' # cpc /\ interval = Inf /\ threshold = Inf) =>
            pending_priority_queue = <<>>]_vars
    /\ [][(cpc = "r_collect" /\ cpc' # cpc /\ interval = Inf /\ threshold = Inf) =>
            pending_resource_queue = <<>>]_vars

\* With the flag set, a call with infinite arguments has returned two
\* messages and left the priority pending queue empty.
C15_Witness ==
    /\ kill_event
    /\ PriorityReturned
    /\ interval = Inf
    /\ threshold = Inf
    /\ Len(messages) >= 2
    /\ pending_priority_queue = <<>>

\* C16: a 'STOP' the priority forwarder reads makes it call close() and is
\* not put on a pending queue: the items of the priority pending queue are
\* never 'STOP', those of the resource pending queue are messages or single
\* characters, and the messages of every call, made or failed, are
\* messages; every other payload the priority forwarder reads is appended
\* to the priority pending queue.
C16_StopNotEnqueued ==
    /\ [](/\ \A k \in DOMAIN pending_priority_queue : pending_priority_queue[k] # STOP
          /\ \A k \in DOMAIN pending_resource_queue :
                DOMAIN pending_resource_queue[k] \cap {"id", "char"} # {}
          /\ \A g \in Groups : \A k \in DOMAIN db[g] : "id" \in DOMAIN db[g][k]
          /\ \A k \in DOMAIN cycle_calls :
                \A h \in DOMAIN cycle_calls[k].messages :
                    "id" \in DOMAIN cycle_calls[k].messages[h])
    /\ [][(fpc["priority"] = "dispatch" /\ fpc'["priority"] # "dispatch") =>
            IF fx["priority"] = STOP
            THEN /\ fpc'["priority"] = "close_interval"
                 /\ pending_priority_queue' = pending_priority_queue
            ELSE pending_priority_queue' = Append(pending_priority_queue, fx["priority"])]_vars

\* The priority forwarder has read a message, which is on the pending
\* queue, and then 'STOP', for which it is in close().
C16_Witness ==
    /\ fpc["priority"] = "close_set"
    /\ Len(sent) = 2
    /\ sent[2] = STOP
    /\ pending_priority_queue = << sent[1] >>

\* The priority messages of type WORKFLOW_INFO, by position.
WorkflowIds == { i \in PriorityIds : sent[i][1] = WORKFLOW_INFO }

WorkflowInsertGroup == << "insert", WORKFLOW >>
WorkflowEndGroup == << "update", WORKFLOW, WorkflowEndColumns >>

\* C17: a workflow message with python_version is, once routed, the single
\* message of exactly one Workflow insert and of no Workflow end update; one
\* without it is the single message of exactly one Workflow update, whose
\* columns are run_id and the three completion columns, and of no Workflow
\* insert; a workflow message is in no other destination group.
C17_WorkflowClassification ==
    /\ \A i \in WorkflowIds :
          LET msg == sent[i][2]
              start == "python_version" \in DOMAIN msg
              routed == IF InFlight(i) THEN 0 ELSE 1
          IN  /\ Count(db[WorkflowInsertGroup], msg) = (IF start THEN routed ELSE 0)
              /\ Count(db[WorkflowEndGroup], msg) = (IF start THEN 0 ELSE routed)
              /\ \A g \in Groups \ {WorkflowInsertGroup, WorkflowEndGroup} :
                    msg \notin Range(db[g])
    /\ \A k \in DOMAIN cycle_calls :
          LET c == cycle_calls[k]
          IN  /\ Group(c) \in {WorkflowInsertGroup, WorkflowEndGroup} => Len(c.messages) = 1
              /\ Group(c) = WorkflowEndGroup =>
                    c.columns = <<"run_id", "tasks_failed_count", "tasks_completed_count",
                                  "time_completed">>

\* A workflow start message was inserted and a workflow end message updated.
C17_Witness ==
    /\ db[WorkflowInsertGroup] # <<>>
    /\ db[WorkflowEndGroup] # <<>>

\* The message was passed to a call start() makes for a priority batch.
RoutedToCall(msg) ==
    \E g \in Groups \ {<< "insert", RESOURCE >>} : msg \in Range(db[g])

\* The item of a priority batch lacks a field that the classifier or the
\* mapping of one of its calls reads.
LacksField(item) ==
    IF item[1] = WORKFLOW_INFO THEN "run_id" \notin DOMAIN item[2]
                               ELSE ~(ModelFields \subseteq DOMAIN item[2])

\* C18: a priority batch with a message that lacks a field is never routed
\* to the end: the cycle raises; and when the lookup of the field is what
\* raised, no message of the batch has been passed to an insert or update.
C18_MissingFieldFailsBatch ==
    /\ PriorityRouted => \A k \in DOMAIN messages : ~LacksField(messages[k])
    /\ ( /\ Failed
          /\ failure[1].tag = "priority"
          /\ (failure[1].raised.op = "lookup" \/ MappingRaises(failure[1].raised)) ) =>
            \A k \in DOMAIN failure[1].batch : ~RoutedToCall(failure[1].batch[k][2])

\* The number of places where the i-th priority payload is on its way: on
\* the ingress queue, held by the forwarder, on the pending queue, in the
\* batch being collected.
PriorityPlaces(i) ==
    Count(priority_queue, << sent[i], Addr >>)
    + (IF fpc["priority"] = "dispatch" /\ fx["priority"] = sent[i] THEN 1 ELSE 0)
    + Count(pending_priority_queue, sent[i])
    + (IF cpc = "p_collect" THEN Count(batch, sent[i]) ELSE 0)

\* The same for the j-th resource message.
ResourcePlaces(j) ==
    Count(resource_queue, << ResourcePayload(j), Addr >>)
    + (IF fpc["resource"] = "dispatch" /\ fx["resource"] = ResourcePayload(j) THEN 1 ELSE 0)
    + Count(pending_resource_queue, ResourceMsg(j))
    + (IF cpc = "r_collect" THEN Count(batch, ResourceMsg(j)) ELSE 0)

\* C19: a message is never in two places of the pipeline nor twice in one:
\* until a batch with it is routed it is in exactly one of the ingress
\* queue, the forwarder's hands, the pending queue of its own source and
\* the batch being collected, and in no destination; from then on it is in
\* none of these places and at most once among the rows of each
\* destination.
C19_NoDuplication ==
    /\ \A i \in PriorityIds :
          LET msg == sent[i][2]
          IN  /\ PriorityPlaces(i) = (IF Persisted(msg) THEN 0 ELSE 1)
              /\ \A g \in Groups : Count(db[g], msg) <= 1
              /\ Count(pending_resource_queue, msg) = 0
    /\ \A j \in 1..nresource :
          /\ ResourcePlaces(j) = (IF Persisted(ResourceMsg(j)) THEN 0 ELSE 1)
          /\ \A g \in Groups : Count(db[g], ResourceMsg(j)) <= 1
          /\ Count(pending_priority_queue, ResourcePayload(j)) = 0

\* A returned task message has its one row in each of three destinations,
\* a resource message its one row, while another message is on its way.
C19_Witness ==
    /\ \E i \in PriorityIds :
          /\ Count(db[<< "update", WORKFLOW, WorkflowCounterColumns >>], sent[i][2]) = 1
          /\ Count(db[<< "update", TASK, TaskUpdateColumns >>], sent[i][2]) = 1
          /\ Count(db[<< "insert", STATUS >>], sent[i][2]) = 1
    /\ \E j \in 1..nresource : Count(db[<< "insert", RESOURCE >>], ResourceMsg(j)) = 1
    /\ \E i \in PriorityIds : PriorityPlaces(i) = 1

\* A call of the coordinator has raised.
Raised == failure # <<>>

\* C20: the step in which a call raises changes neither the flag nor the
\* batching parameters nor the forwarders; after it, as before, a forwarder
\* has returned only if the flag is set, which a 'STOP' read from the
\* priority queue alone brings about, and until then each forwarder can
\* take its next step; no call is made after the failure, so that no
\* message put on the priority queue after it is ever persisted.
C20_FailureFrame ==
    /\ [][(~Raised /\ Raised') => UNCHANGED << kill_event, config, forwarders, queues >>]_vars
    /\ [](\A t \in Tags : fpc[t] = "done" => (kill_event /\ StopSent))
    /\ []((Raised /\ ~kill_event) => \A t \in Tags : ENABLED ForwarderNext(t))
    /\ [][Raised => db' = db]_vars
    /\ [](Raised => \A i \in PriorityIds :
                        i > failure[1].sent => ~RoutedToCall(sent[i][2]))

\* A call raised when one message had been put; a second message, put and
\* forwarded since, is on the pending queue and not persisted; then 'STOP'
\* was put and read, and both forwarders have returned.
C20_Witness ==
    /\ Raised
    /\ failure[1].sent = 1
    /\ Len(sent) = 3
    /\ sent[2] # STOP
    /\ sent[3] = STOP
    /\ pending_priority_queue = << sent[2] >>
    /\ ~RoutedToCall(sent[2][2])
    /\ \A t \in Tags : fpc[t] = "done"

====
